---- MODULE Spec2Model ----
(***************************************************************************)
(* Model of the graph-database migrator of querylib (src/src/migrations.rs *)
(* and src/src/lib.rs): GraphMigrator::run_migrations applied, run after   *)
(* run, to one store that holds the migration chain (DataModelMigration    *)
(* nodes) and the committed effects of the script bodies.                  *)
(*                                                                         *)
(* Every await point of up_migration / get_existing_migration /            *)
(* create_migration_node is one action; a store operation may fail at     *)
(* each of them, and the process may crash between any two of them.        *)
(***************************************************************************)
EXTENDS Integers, Sequences, FiniteSets, TLC

\* ------------------------------------------------------------------ bounds
\* longest input sequence handed to run_migrations / longest directory listing
MaxLen == 2
\* number of runs started against the store in one behaviour
MaxRuns == 2
\* largest wall-clock reading
MaxClock == 1

\* ------------------------------------------------------------- value sets
\* Option<T>: None is the empty sequence, Some(x) the one-element sequence
None == <<>>
Some(x) == <<x>>
IsSome(o) == o # <<>>
Unwrap(o) == o[1]
NoExt == "NoExt"
Texts == {"T1", "T2"}
Unreadable == "Unreadable"

\* A PathBuf, by what file_name() and extension() return for it.
Paths ==
  { [file_name |-> "a.cyp",    extension |-> "cyp"],
    [file_name |-> "b.cypher", extension |-> "cypher"],
    [file_name |-> "c.txt",    extension |-> "txt"],
    [file_name |-> "d",        extension |-> NoExt] }

FileNames == {"a.cyp", "b.cypher"}

Procs == {1, 2}
\* the runner of the sequential specification
Solo == {1}

SeqsUpTo(S, n) == UNION { [1..k -> S] : k \in 0..n }

\* ------------------------------------------------------ pure functions
\* sha256::digest(content): collision-free on the texts of the model
calculate_checksum(content) == <<"sha256", content>>

\* struct FileMigration
FileMigration(name, text) ==
  [checksum |-> calculate_checksum(text), file_name |-> name, cypher_text |-> text]

\* the contents a file is given over time: a.cyp is edited between runs
\* (T1, then T2), b.cypher keeps its content
Contents(name) == IF name = "a.cyp" THEN Texts ELSE {"T1"}

\* every FileMigration process_file can build for a migration file name
Scripts == UNION { { FileMigration(n, t) : t \in Contents(n) } : n \in FileNames }

\* A directory entry of fs::read_dir: an Err entry (ok = FALSE), or a path with
\* the content of the file (Unreadable when fs::read_to_string fails).
DirEntries ==
  { [ok |-> FALSE, path |-> CHOOSE q \in Paths : q.extension = NoExt, content |-> Unreadable] }
  \cup { e \in [ok : {TRUE}, path : Paths, content : Texts \cup {Unreadable}] :
           e.content \in Contents(e.path.file_name) \cup {Unreadable} }

\* fault: only the .cyp extension is recognized
MutProcessFileCypOnly(file_path, content) ==
  IF file_path.extension = NoExt THEN None
  ELSE IF file_path.extension = "cyp"
       THEN IF content = Unreadable THEN None
            ELSE Some(FileMigration(file_path.file_name, content))
       ELSE None
\* process_file: Some(FileMigration) or None
process_file(file_path, content) ==
  IF file_path.extension = NoExt THEN None
  ELSE IF file_path.extension = "cyp" \/ file_path.extension = "cypher"
       THEN IF content = Unreadable THEN None
            ELSE Some(FileMigration(file_path.file_name, content))
       ELSE None

\* entries.filter_map(entry.ok()).filter_map(process_file).collect()
RECURSIVE FilterMap(_)
FilterMap(entries) ==
  IF entries = <<>> THEN <<>>
  ELSE LET e == Head(entries)
       IN  (IF e.ok THEN process_file(e.path, e.content) ELSE None)
             \o FilterMap(Tail(entries))

\* gather_migrations: never an error
gather_migrations(dir) ==
  IF dir.ok THEN FilterMap(dir.entries) ELSE <<>>

\* directories: unreadable or missing (ok = FALSE), or a listing of entries
\* with distinct paths
Dirs ==
  { [ok |-> FALSE, entries |-> <<>>] } \cup
  { [ok |-> TRUE, entries |-> d] : d \in
      { d \in SeqsUpTo(DirEntries, MaxLen) :
          \A i, j \in 1..Len(d) :
            (i # j /\ d[i].ok /\ d[j].ok) => d[i].path # d[j].path } }

\* what a caller may hand to run_migrations
Inputs == { gather_migrations(d) : d \in Dirs } \cup SeqsUpTo(Scripts, MaxLen)

\* ------------------------------------------------------------------ state
VARIABLES
  chain,       \* the store: DataModelMigration nodes, in creation order
  effects,     \* the store: committed executions of each script body
  now,         \* the last reading of the wall clock (chrono::Utc::now)
  runs,        \* runs started so far
  pc,          \* per runner: the await point it is at
  migrations,  \* per runner: the input sequence of run_migrations
  counter,     \* per runner: the enumerate() index of the for loop
  existing,    \* per runner: the Option<MigrationsNode> of the lookup
  new_node,    \* per runner: the MigrationsNode built by create_migration_node
  result,      \* per runner: what run_migrations returned
  openTx,      \* per runner: transactions started and neither committed nor rolled back
  trace,       \* per runner: what the run did so far, <<event, index>>
  chain0,      \* per runner: the chain when the run started
  effects0,    \* per runner: the effects when the run started
  prior,       \* per runner: how this run relates to the runner's previous run
  last,        \* per runner, between runs: how the previous run ended, and its input
  dir          \* the migrations folder, as fs::read_dir and fs::read_to_string see it

vars == <<chain, effects, now, runs, pc, migrations, counter, existing, new_node,
          result, openTx, trace, chain0, effects0, prior, last, dir>>

Active == {"get_existing", "up_migration", "create_migration_node", "run_script",
           "commit_script", "start_record_txn", "run_record", "commit_record"}

\* after tx.commit() of the script, before tx_migration_node.commit()
Window == {"start_record_txn", "run_record", "commit_record"}

\* kind: "fresh" (no previous run, or one that failed or crashed elsewhere),
\* "ok" (the previous run returned Ok(())), "crash" (the previous run crashed in
\* the Window at position at); migs: the previous run's input
Fresh == [kind |-> "fresh", migs |-> <<>>, at |-> 0]

\* fault: version is the bare counter
MutNewNodeVersion(i, migration, t) ==
  [checksum |-> migration.checksum, file_name |-> migration.file_name,
   cypher_text |-> migration.file_name, version |-> i, timestamp |-> t]
\* fault: version does not follow the counter
MutNewNodeConstVersion(i, migration, t) ==
  [checksum |-> migration.checksum, file_name |-> migration.file_name,
   cypher_text |-> migration.file_name, version |-> 1, timestamp |-> t]
\* fault: version continues from the number of records in the chain
MutNewNodeFromChain(i, migration, t) ==
  [checksum |-> migration.checksum, file_name |-> migration.file_name,
   cypher_text |-> migration.file_name, version |-> Len(chain) + 1, timestamp |-> t]
\* struct MigrationsNode, as create_migration_node builds it: cypher_text is
\* the file name, version is counter + 1, timestamp is Utc::now()
NewNode(i, migration, t) ==
  [checksum |-> migration.checksum, file_name |-> migration.file_name,
   cypher_text |-> migration.file_name, version |-> i + 1, timestamp |-> t]

\* fault: the query matches on a property no node has, so no row is returned
MutMatchRowsWrongProperty(ch, name) == {}
\* MATCH (m:DataModelMigration { file_name: $migration_file_name }) RETURN m:
\* the rows of the result stream
MatchRows(ch, name) == { k \in 1..Len(ch) : ch[k].file_name = name }

\* Result<_, QueryError>: err is "" for Ok(value)
Ok(v) == [err |-> "", value |-> v]
Err(e) == [err |-> e, value |-> None]

\* what results.next(tx) gives for a query whose rows are those at `rows` of ch:
\* a store error, no row, or one of the rows (the order of the stream is the
\* store's)
StreamNext(ch, rows) ==
  {[failed |-> TRUE, row |-> None]} \cup
  (IF rows = {} THEN {[failed |-> FALSE, row |-> None]}
   ELSE {[failed |-> FALSE, row |-> Some(ch[k])] : k \in rows})

\* lib.rs single: no row is QueryError::NoRecordsFound
single(nxt, deserialized) ==
  IF nxt.failed THEN Err("QueryError::ExecutionError")
  ELSE IF ~IsSome(nxt.row) THEN Err("QueryError::NoRecordsFound")
  ELSE IF ~deserialized THEN Err("QueryError::NeoDeError")
  ELSE Ok(nxt.row)

\* fault: the lookup uses single
MutGetSingleAsSingle(nxt, deserialized) == single(nxt, deserialized)
\* lib.rs get_single: no row is Ok(None)
get_single(nxt, deserialized) ==
  IF nxt.failed THEN Err("QueryError::ExecutionError")
  ELSE IF IsSome(nxt.row)
       THEN IF deserialized THEN Ok(nxt.row) ELSE Err("QueryError::NeoDeError")
  ELSE Ok(None)

\* fault: an up-to-date migration is applied again
MutOutcomeReapply(ex, migration) ==
  IF IsSome(ex)
  THEN IF Unwrap(ex).checksum # migration.checksum THEN "mismatch" ELSE "create"
  ELSE "create"
\* fault: the checksums are not compared
MutOutcomeNoDrift(ex, migration) ==
  IF IsSome(ex) THEN "skip" ELSE "create"
\* fault: the comparison of the checksums is inverted
MutOutcomeInverted(ex, migration) ==
  IF IsSome(ex)
  THEN IF Unwrap(ex).checksum = migration.checksum THEN "mismatch" ELSE "skip"
  ELSE "create"
\* the branch up_migration takes on the lookup's result
UpMigrationOutcome(ex, migration) ==
  IF IsSome(ex)
  THEN IF Unwrap(ex).checksum # migration.checksum THEN "mismatch" ELSE "skip"
  ELSE "create"

\* fault: an empty input is reported as an error
MutForNextEmptyIsError(migs, i) ==
  IF i < Len(migs) THEN [pc |-> "get_existing", result |-> "none"]
  ELSE [pc |-> "done", result |-> IF migs = <<>> THEN "QueryError::NoRecordsFound" ELSE "Ok"]
\* the for loop of run_migrations at index i: the next iteration, or Ok(())
\* after the last
ForNext(migs, i) ==
  IF i < Len(migs) THEN [pc |-> "get_existing", result |-> "none"]
  ELSE [pc |-> "done", result |-> "Ok"]

\* the query of cypher/create_migration_node.cypher: insert one node with the
\* five properties of $migrationNode
CreateMigrationNodeCypher(ch, node) == Append(ch, node)

Current(p) == migrations[p][counter[p] + 1]

\* up_migration returned Ok(()): the loop goes on, or run_migrations returns Ok(())
Continue(p) ==
  /\ counter' = [counter EXCEPT ![p] = @ + 1]
  /\ pc' = [pc EXCEPT ![p] = ForNext(migrations[p], counter[p] + 1).pc]
  /\ result' = [result EXCEPT ![p] = ForNext(migrations[p], counter[p] + 1).result]
  /\ existing' = [existing EXCEPT ![p] = None]
  /\ new_node' = [new_node EXCEPT ![p] = None]

\* fault: the error is swallowed and the loop goes on with the next script
MutFailGoesOn(p, err) == Continue(p)
\* the ? operator: the error is returned from run_migrations
Fail(p, err) ==
  /\ pc' = [pc EXCEPT ![p] = "done"]
  /\ result' = [result EXCEPT ![p] = err]
  /\ existing' = [existing EXCEPT ![p] = None]
  /\ new_node' = [new_node EXCEPT ![p] = None]
  /\ UNCHANGED counter

\* a folder that cannot be read
NoDir == [ok |-> FALSE, entries |-> <<>>]

\* an empty store and no run started
InitStore ==
  /\ chain = <<>>
  /\ effects = [s \in Scripts |-> 0]
  /\ now = 0
  /\ runs = 0
  /\ pc = [p \in Procs |-> "idle"]
  /\ migrations = [p \in Procs |-> <<>>]
  /\ counter = [p \in Procs |-> 0]
  /\ existing = [p \in Procs |-> None]
  /\ new_node = [p \in Procs |-> None]
  /\ result = [p \in Procs |-> "none"]
  /\ openTx = [p \in Procs |-> {}]
  /\ trace = [p \in Procs |-> <<>>]
  /\ chain0 = [p \in Procs |-> <<>>]
  /\ effects0 = [p \in Procs |-> [s \in Scripts |-> 0]]
  /\ prior = [p \in Procs |-> Fresh]
  /\ last = [p \in Procs |-> Fresh]

\* the caller hands its own sequences to run_migrations; the folder is not read
Init == InitStore /\ dir = NoDir

\* run_migrations is called with migs
StartRun(p, migs) ==
  /\ pc[p] = "idle"
  /\ runs < MaxRuns
  /\ runs' = runs + 1
  /\ migrations' = [migrations EXCEPT ![p] = migs]
  /\ counter' = [counter EXCEPT ![p] = 0]
  /\ pc' = [pc EXCEPT ![p] = ForNext(migs, 0).pc]
  /\ result' = [result EXCEPT ![p] = ForNext(migs, 0).result]
  /\ existing' = [existing EXCEPT ![p] = None]
  /\ new_node' = [new_node EXCEPT ![p] = None]
  /\ openTx' = [openTx EXCEPT ![p] = {}]
  /\ trace' = [trace EXCEPT ![p] = <<>>]
  /\ chain0' = [chain0 EXCEPT ![p] = chain]
  /\ effects0' = [effects0 EXCEPT ![p] = effects]
  /\ prior' = [prior EXCEPT ![p] = IF last[p].migs = migs THEN last[p] ELSE Fresh]
  /\ last' = [last EXCEPT ![p] = Fresh]
  /\ UNCHANGED <<chain, effects, now, dir>>

\* get_existing_migration: start_txn_on, execute, get_single; the transaction
\* is dropped without commit or rollback
GetExistingMigration(p) ==
  /\ pc[p] = "get_existing"
  /\ trace' = [trace EXCEPT ![p] = Append(@, <<"lookup", counter[p]>>)]
  /\ \/ \* start_txn_on fails
        /\ Fail(p, "Neo4jError")
        /\ UNCHANGED openTx
     \/ \* execute fails
        /\ Fail(p, "Neo4jError")
        /\ openTx' = [openTx EXCEPT ![p] = @ \cup {"lookup"}]
     \/ \* get_single on the result stream; its error becomes
        \* MigrationError::QueryError
        /\ openTx' = [openTx EXCEPT ![p] = @ \cup {"lookup"}]
        /\ \E nxt \in StreamNext(chain, MatchRows(chain, Current(p).file_name)),
              deserialized \in BOOLEAN :
             LET r == get_single(nxt, deserialized)
             IN IF r.err # ""
                THEN Fail(p, r.err)
                ELSE /\ existing' = [existing EXCEPT ![p] = r.value]
                     /\ pc' = [pc EXCEPT ![p] = "up_migration"]
                     /\ UNCHANGED <<new_node, result, counter>>
  /\ UNCHANGED <<chain, effects, now, runs, migrations, chain0, effects0, prior, last, dir>>

\* fault: a drifted record is overwritten with the new checksum
MutChecksumMismatchHeal(p) ==
  /\ pc[p] = "up_migration"
  /\ UpMigrationOutcome(existing[p], Current(p)) = "mismatch"
  /\ chain' = [k \in 1..Len(chain) |->
                 IF chain[k].file_name = Current(p).file_name
                 THEN [chain[k] EXCEPT !.checksum = Current(p).checksum]
                 ELSE chain[k]]
  /\ Continue(p)
  /\ UNCHANGED <<effects, now, runs, migrations, openTx, trace, chain0,
                 effects0, prior, last, dir>>
\* fault: the mismatch is reported nowhere and the loop goes on
MutChecksumMismatchContinue(p) ==
  /\ pc[p] = "up_migration"
  /\ UpMigrationOutcome(existing[p], Current(p)) = "mismatch"
  /\ Continue(p)
  /\ UNCHANGED <<chain, effects, now, runs, migrations, openTx, trace, chain0,
                 effects0, prior, last, dir>>
\* up_migration: Err(ChecksumMismatch)
ChecksumMismatch(p) ==
  /\ pc[p] = "up_migration"
  /\ UpMigrationOutcome(existing[p], Current(p)) = "mismatch"
  /\ Fail(p, "ChecksumMismatch")
  /\ UNCHANGED <<chain, effects, now, runs, migrations, openTx, trace, chain0,
                 effects0, prior, last, dir>>

\* up_migration: SKIP - up to date
SkipMigration(p) ==
  /\ pc[p] = "up_migration"
  /\ UpMigrationOutcome(existing[p], Current(p)) = "skip"
  /\ Continue(p)
  /\ trace' = [trace EXCEPT ![p] = Append(@, <<"skip", counter[p]>>)]
  /\ UNCHANGED <<chain, effects, now, runs, migrations, openTx, chain0,
                 effects0, prior, last, dir>>

\* fault: a script without a record is passed over
MutCreateNothing(p) ==
  /\ pc[p] = "up_migration"
  /\ UpMigrationOutcome(existing[p], Current(p)) = "create"
  /\ Continue(p)
  /\ UNCHANGED <<chain, effects, now, runs, migrations, openTx, trace, chain0,
                 effects0, prior, last, dir>>
\* up_migration calls create_migration_node
CallCreateMigrationNode(p) ==
  /\ pc[p] = "up_migration"
  /\ UpMigrationOutcome(existing[p], Current(p)) = "create"
  /\ pc' = [pc EXCEPT ![p] = "create_migration_node"]
  /\ existing' = [existing EXCEPT ![p] = None]
  /\ trace' = [trace EXCEPT ![p] = Append(@, <<"create", counter[p]>>)]
  /\ UNCHANGED <<chain, effects, now, runs, migrations, counter, new_node, result,
                 openTx, chain0, effects0, prior, last, dir>>

\* create_migration_node: start_txn_on, then new_node with Utc::now(); the wall
\* clock is read as a value not below its last reading
StartScriptTxn(p) ==
  /\ pc[p] = "create_migration_node"
  /\ \/ /\ Fail(p, "Neo4jError")
        /\ UNCHANGED <<openTx, now>>
     \/ /\ \E t \in now..MaxClock :
             /\ now' = t
             /\ new_node' = [new_node EXCEPT ![p] = Some(NewNode(counter[p], Current(p), t))]
        /\ openTx' = [openTx EXCEPT ![p] = @ \cup {"script"}]
        /\ pc' = [pc EXCEPT ![p] = "run_script"]
        /\ UNCHANGED <<existing, result, counter>>
  /\ UNCHANGED <<chain, effects, runs, migrations, trace, chain0, effects0, prior, last, dir>>

\* fault: the error of tx.run is dropped and the record is written anyway
MutScriptErrorIgnored(p) ==
  /\ pc' = [pc EXCEPT ![p] = "start_record_txn"]
  /\ UNCHANGED <<existing, new_node, result, counter>>
\* the script raised a store execution error: tx.run(..).await?
ScriptError(p) == Fail(p, "Neo4jError")

\* tx.run(query(migration.cypher_text))
RunScript(p) ==
  /\ pc[p] = "run_script"
  /\ \/ /\ ScriptError(p)
        /\ trace' = [trace EXCEPT ![p] = Append(@, <<"script_error", counter[p]>>)]
     \/ /\ pc' = [pc EXCEPT ![p] = "commit_script"]
        /\ trace' = [trace EXCEPT ![p] = Append(@, <<"run", counter[p]>>)]
        /\ UNCHANGED <<existing, new_node, result, counter>>
  /\ UNCHANGED <<chain, effects, now, runs, migrations, openTx, chain0, effects0, prior, last, dir>>

\* fault: the script-execution transaction is released without its effect
MutCommitScriptDropped(p) ==
  /\ pc[p] = "commit_script"
  /\ openTx' = [openTx EXCEPT ![p] = @ \ {"script"}]
  /\ trace' = [trace EXCEPT ![p] = Append(@, <<"exec", counter[p]>>)]
  /\ pc' = [pc EXCEPT ![p] = "start_record_txn"]
  /\ UNCHANGED <<existing, new_node, result, counter, effects>>
  /\ UNCHANGED <<chain, now, runs, migrations, chain0, effects0, prior, last, dir>>
\* fault: up_migration returns once the script is committed, before the record
\* is written
MutCommitScriptReturns(p) ==
  /\ pc[p] = "commit_script"
  /\ effects' = [effects EXCEPT ![Current(p)] = @ + 1]
  /\ openTx' = [openTx EXCEPT ![p] = @ \ {"script"}]
  /\ trace' = [trace EXCEPT ![p] = Append(@, <<"exec", counter[p]>>)]
  /\ Continue(p)
  /\ UNCHANGED <<chain, now, runs, migrations, chain0, effects0, prior, last, dir>>
\* fault: a failed commit of the script is not noticed
MutCommitScriptFailIgnored(p) ==
  /\ pc[p] = "commit_script"
  /\ openTx' = [openTx EXCEPT ![p] = @ \ {"script"}]
  /\ pc' = [pc EXCEPT ![p] = "start_record_txn"]
  /\ UNCHANGED <<existing, new_node, result, counter, effects, trace>>
  /\ UNCHANGED <<chain, now, runs, migrations, chain0, effects0, prior, last, dir>>
\* tx.commit() of the script-execution transaction
CommitScript(p) ==
  /\ pc[p] = "commit_script"
  /\ \/ /\ Fail(p, "Neo4jError")
        /\ UNCHANGED <<effects, openTx, trace>>
     \/ /\ effects' = [effects EXCEPT ![Current(p)] = @ + 1]
        /\ openTx' = [openTx EXCEPT ![p] = @ \ {"script"}]
        /\ trace' = [trace EXCEPT ![p] = Append(@, <<"exec", counter[p]>>)]
        /\ pc' = [pc EXCEPT ![p] = "start_record_txn"]
        /\ UNCHANGED <<existing, new_node, result, counter>>
  /\ UNCHANGED <<chain, now, runs, migrations, chain0, effects0, prior, last, dir>>

\* the second start_txn_on
StartRecordTxn(p) ==
  /\ pc[p] = "start_record_txn"
  /\ \/ /\ Fail(p, "Neo4jError")
        /\ UNCHANGED openTx
     \/ /\ openTx' = [openTx EXCEPT ![p] = @ \cup {"record"}]
        /\ pc' = [pc EXCEPT ![p] = "run_record"]
        /\ UNCHANGED <<existing, new_node, result, counter>>
  /\ UNCHANGED <<chain, effects, now, runs, migrations, trace, chain0, effects0, prior, last, dir>>

\* tx_migration_node.run(migration_node_query)
RunRecordQuery(p) ==
  /\ pc[p] = "run_record"
  /\ \/ Fail(p, "Neo4jError")
     \/ /\ pc' = [pc EXCEPT ![p] = "commit_record"]
        /\ UNCHANGED <<existing, new_node, result, counter>>
  /\ UNCHANGED <<chain, effects, now, runs, migrations, openTx, trace, chain0,
                 effects0, prior, last, dir>>

\* fault: the commit keeps one record per file_name, a second one is dropped
MutCommitRecordMerge(p) ==
  /\ pc[p] = "commit_record"
  /\ chain' = IF \E k \in 1..Len(chain) : chain[k].file_name = Unwrap(new_node[p]).file_name
              THEN chain
              ELSE CreateMigrationNodeCypher(chain, Unwrap(new_node[p]))
  /\ openTx' = [openTx EXCEPT ![p] = @ \ {"record"}]
  /\ trace' = [trace EXCEPT ![p] = Append(@, <<"record", counter[p]>>)]
  /\ Continue(p)
  /\ UNCHANGED <<effects, now, runs, migrations, chain0, effects0, prior, last, dir>>
\* tx_migration_node.commit(); Ok(None); DONE - migrated
CommitRecord(p) ==
  /\ pc[p] = "commit_record"
  /\ \/ /\ Fail(p, "Neo4jError")
        /\ UNCHANGED <<chain, openTx, trace>>
     \/ /\ chain' = CreateMigrationNodeCypher(chain, Unwrap(new_node[p]))
        /\ openTx' = [openTx EXCEPT ![p] = @ \ {"record"}]
        /\ trace' = [trace EXCEPT ![p] = Append(@, <<"record", counter[p]>>)]
        /\ Continue(p)
  /\ UNCHANGED <<effects, now, runs, migrations, chain0, effects0, prior, last, dir>>

\* the state a runner has between two runs
Cleared(p) ==
  /\ pc' = [pc EXCEPT ![p] = "idle"]
  /\ migrations' = [migrations EXCEPT ![p] = <<>>]
  /\ counter' = [counter EXCEPT ![p] = 0]
  /\ existing' = [existing EXCEPT ![p] = None]
  /\ new_node' = [new_node EXCEPT ![p] = None]
  /\ result' = [result EXCEPT ![p] = "none"]
  /\ openTx' = [openTx EXCEPT ![p] = {}]
  /\ trace' = [trace EXCEPT ![p] = <<>>]
  /\ chain0' = [chain0 EXCEPT ![p] = <<>>]
  /\ effects0' = [effects0 EXCEPT ![p] = [s \in Scripts |-> 0]]
  /\ prior' = [prior EXCEPT ![p] = Fresh]

\* run_migrations has returned; its values are dropped
Return(p) ==
  /\ pc[p] = "done"
  /\ Cleared(p)
  /\ last' = [last EXCEPT ![p] =
                IF result[p] = "Ok"
                THEN [kind |-> "ok", migs |-> migrations[p], at |-> 0]
                ELSE Fresh]
  /\ UNCHANGED <<chain, effects, now, runs, dir>>

\* the process dies at an await point; the store keeps what was committed
Crash(p) ==
  /\ pc[p] \in Active
  /\ Cleared(p)
  /\ last' = [last EXCEPT ![p] =
                IF pc[p] \in Window
                THEN [kind |-> "crash", migs |-> migrations[p], at |-> counter[p]]
                ELSE Fresh]
  /\ UNCHANGED <<chain, effects, now, runs, dir>>

Step(p) ==
  \/ \E migs \in Inputs : StartRun(p, migs)
  \/ GetExistingMigration(p)
  \/ ChecksumMismatch(p)
  \/ SkipMigration(p)
  \/ CallCreateMigrationNode(p)
  \/ StartScriptTxn(p)
  \/ RunScript(p)
  \/ CommitScript(p)
  \/ StartRecordTxn(p)
  \/ RunRecordQuery(p)
  \/ CommitRecord(p)
  \/ Return(p)
  \/ Crash(p)

\* at most one run executes against the store at a time
Next == \E p \in Solo : Step(p)

Spec == Init /\ [][Next]_vars

\* ------------------------------------------------ discovery, then the run
\* the folder is one of Dirs; each run gathers it and applies what it found
InitGather == InitStore /\ dir \in Dirs

\* run_migrations(db, driver, gather_migrations(folder_path))
GatherAndRun(p) == StartRun(p, gather_migrations(dir))

\* between two runs a file of the folder is given another content: what
\* fs::read_to_string returns for it at the next run
EditFile(k, c) ==
  /\ \A p \in Procs : pc[p] = "idle"
  /\ 0 < runs /\ runs < MaxRuns
  /\ dir.ok
  /\ k \in 1..Len(dir.entries)
  /\ dir.entries[k].ok
  /\ c \in Contents(dir.entries[k].path.file_name)
  /\ c # dir.entries[k].content
  /\ dir' = [dir EXCEPT !.entries[k].content = c]
  /\ UNCHANGED <<chain, effects, now, runs, pc, migrations, counter, existing,
                 new_node, result, openTx, trace, chain0, effects0, prior, last>>

NextGather ==
  \/ \E k \in 1..MaxLen, c \in Texts : EditFile(k, c)
  \/ \E p \in Solo :
    \/ GatherAndRun(p)
    \/ GetExistingMigration(p)
    \/ ChecksumMismatch(p)
    \/ SkipMigration(p)
    \/ CallCreateMigrationNode(p)
    \/ StartScriptTxn(p)
    \/ RunScript(p)
    \/ CommitScript(p)
    \/ StartRecordTxn(p)
    \/ RunRecordQuery(p)
    \/ CommitRecord(p)
    \/ Return(p)
    \/ Crash(p)

SpecGather == InitGather /\ [][NextGather]_vars

\* two callers run the migrator against the same store at the same time, each
\* once and each with one script
StartRunOne(p) == \E s \in Scripts : StartRun(p, <<s>>)

NextConcurrent ==
  \E p \in Procs :
    \/ StartRunOne(p)
    \/ GetExistingMigration(p)
    \/ ChecksumMismatch(p)
    \/ SkipMigration(p)
    \/ CallCreateMigrationNode(p)
    \/ StartScriptTxn(p)
    \/ RunScript(p)
    \/ CommitScript(p)
    \/ StartRecordTxn(p)
    \/ RunRecordQuery(p)
    \/ CommitRecord(p)

SpecConcurrent == Init /\ [][NextConcurrent]_vars

\* ------------------------------------------------------- claim vocabulary
StoreErrors == {"Neo4jError", "QueryError::ExecutionError", "QueryError::NeoDeError"}

HasEvent(p, ev, i) == \E n \in 1..Len(trace[p]) : trace[p][n] = <<ev, i>>
EventAt(p, ev, i) == CHOOSE n \in 1..Len(trace[p]) : trace[p][n] = <<ev, i>>

IsPrefix(a, b) == Len(a) <= Len(b) /\ \A n \in 1..Len(a) : a[n] = b[n]

HasRecord(ch, name) == \E k \in 1..Len(ch) : ch[k].file_name = name

\* the records the run of p has added to the chain (one run at a time)
NewRecords(p) == SubSeq(chain, Len(chain0[p]) + 1, Len(chain))

\* the trace of a run of n scripts that looks every script up and skips it
AllSkipTrace(n) ==
  [m \in 1..(2 * n) |->
     IF m % 2 = 1 THEN <<"lookup", (m - 1) \div 2>> ELSE <<"skip", (m - 2) \div 2>>]

\* the positions (0-based) of the input whose script body the run committed
Applied(p) == { i \in 0..(Len(migrations[p]) - 1) : HasEvent(p, "exec", i) }

\* ------------------------------------------------------------------ C1
\* C1: a run that repeats the input of the run that has just returned Ok(())
\* skips every script: it looks each one up and skips it, runs no script body,
\* writes no record, leaves chain and effects as they were, and returns Ok(());
\* the only other way it can end is the error of a failed lookup.
C1_RerunSkipsEverything ==
  \A p \in Procs :
    prior[p].kind = "ok" =>
      /\ chain = chain0[p]
      /\ effects = effects0[p]
      /\ IsPrefix(trace[p], AllSkipTrace(Len(migrations[p])))
      /\ pc[p] = "done" => result[p] \in {"Ok"} \cup StoreErrors
      /\ (pc[p] = "done" /\ result[p] = "Ok") =>
            trace[p] = AllSkipTrace(Len(migrations[p]))

C1_Witness ==
  \E p \in Procs :
    /\ prior[p].kind = "ok"
    /\ pc[p] = "done"
    /\ result[p] = "Ok"
    /\ Len(migrations[p]) = 2
    /\ Len(chain) = 2
    /\ HasEvent(p, "skip", 1)

\* ------------------------------------------------------------------ C2
\* a script of the input whose file_name has a chain record with another checksum
Drifted(p, i) ==
  \E k \in 1..Len(chain) :
    /\ chain[k].file_name = migrations[p][i + 1].file_name
    /\ chain[k].checksum # migrations[p][i + 1].checksum

\* C2: when a script of the input has a chain record with the same file_name
\* and a different checksum, the run never returns Ok(()): it returns
\* ChecksumMismatch (or the error of a store operation that failed before the
\* script was reached); the records the chain held are all still there and
\* unchanged, and the body of that script is neither run nor committed.
C2_DriftIsRejected ==
  \A p \in Procs :
    \A i \in 0..(Len(migrations[p]) - 1) :
      (pc[p] # "idle" /\ Drifted(p, i)) =>
        /\ pc[p] = "done" => result[p] \in {"ChecksumMismatch"} \cup StoreErrors
        /\ IsPrefix(chain0[p], chain)
        /\ ~HasEvent(p, "run", i)
        /\ ~HasEvent(p, "exec", i)
        /\ ~HasEvent(p, "record", i)
        /\ ~HasEvent(p, "skip", i)

C2_Witness ==
  \E p \in Procs :
    /\ pc[p] = "done"
    /\ result[p] = "ChecksumMismatch"
    /\ Len(chain0[p]) >= 1
    /\ chain = chain0[p]
    /\ Drifted(p, counter[p])
    /\ HasEvent(p, "lookup", counter[p])

\* ------------------------------------------------------------------ C3
\* every script of the input is new: no record for its file_name when the run
\* starts, and no other script of the input has its file_name
AllNew(p) ==
  /\ \A i \in 1..Len(migrations[p]) : ~HasRecord(chain0[p], migrations[p][i].file_name)
  /\ \A i, j \in 1..Len(migrations[p]) :
       i # j => migrations[p][i].file_name # migrations[p][j].file_name

ScriptFailedAt(p, k) ==
  /\ pc[p] = "done"
  /\ trace[p] # <<>>
  /\ trace[p][Len(trace[p])] = <<"script_error", k>>

C5_VersionsStrictlyIncrease ==
  \A i, j \in 1..Len(chain) : i < j => chain[i].version < chain[j].version

\* C5, amended: version is a sequence number >= 1 taken from the position of
\* the script in the input of the run that writes the record; among the records
\* one run writes, each later one has a strictly greater version than each
\* earlier one. Records of different runs may share a version.
C5_VersionsIncreaseWithinRun ==
  \A p \in Procs :
    pc[p] # "idle" =>
      /\ IsPrefix(chain0[p], chain)
      /\ \A n \in 1..Len(NewRecords(p)) : NewRecords(p)[n].version >= 1
      /\ \A m, n \in 1..Len(NewRecords(p)) :
           m < n => NewRecords(p)[m].version < NewRecords(p)[n].version

C5_Witness ==
  \E p \in Procs :
    /\ runs = 2
    /\ pc[p] = "done"
    /\ Len(NewRecords(p)) = 2
    /\ NewRecords(p)[1].version = 1
    /\ NewRecords(p)[2].version = 2

\* ------------------------------------------------------------------ C6
\* C6: with one run at a time, the chain never holds two records with the same
\* file_name, whatever the runs were (failed, crashed, repeated, or given an
\* input that repeats a file_name).
C6_FileNameUnique ==
  \A i, j \in 1..Len(chain) : i # j => chain[i].file_name # chain[j].file_name

C6_Witness ==
  \E p \in Procs :
    /\ pc[p] = "done"
    /\ result[p] = "Ok"
    /\ Len(migrations[p]) = 2
    /\ migrations[p][1].file_name = migrations[p][2].file_name
    /\ HasEvent(p, "record", 0)
    /\ HasEvent(p, "skip", 1)
    /\ Len(chain) = 2

\* ------------------------------------------------------------------ C7
\* C7: the chain is append-only: every step of every run (also one that ends
\* in ChecksumMismatch or a store error, and a crash) keeps each record of the
\* chain in place with all its fields, and adds at most one record.
C7_AppendOnly ==
  [][IsPrefix(chain, chain') /\ Len(chain') <= Len(chain) + 1]_vars

C7_Witness ==
  \E p \in Procs :
    /\ pc[p] = "done"
    /\ result[p] = "ChecksumMismatch"
    /\ Len(chain0[p]) >= 1
    /\ Len(chain) = Len(chain0[p]) + 1

\* ------------------------------------------------------------------ C8
\* the script the previous run of p was applying when it crashed in the Window
CrashedScript(c) == c.migs[c.at + 1]

\* C8: between the commit of the script and the commit of the record the store
\* holds the script's effect and no record for its file_name; a crash there
\* leaves the store so. The run that then repeats the input never skips that
\* script: it gets past it only by committing its body once more (its effect is
\* then committed at least twice) and then writing its record, and unless a
\* store operation fails it does get past it.
C8_CrashWindow ==
  \A p \in Procs :
    /\ pc[p] \in Window =>
         /\ effects[Current(p)] > effects0[p][Current(p)]
         /\ ~HasRecord(chain, Current(p).file_name)
    /\ (pc[p] = "idle" /\ last[p].kind = "crash") =>
         /\ effects[CrashedScript(last[p])] >= 1
         /\ ~HasRecord(chain, CrashedScript(last[p]).file_name)
    /\ prior[p].kind = "crash" =>
         LET at == prior[p].at
             s == CrashedScript(prior[p])
         IN  /\ effects0[p][s] >= 1
             /\ ~HasRecord(chain0[p], s.file_name)
             /\ ~HasEvent(p, "skip", at)
             /\ (pc[p] = "done" /\ result[p] \notin StoreErrors) => counter[p] > at
             /\ counter[p] > at =>
                  /\ effects[s] = effects0[p][s] + 1
                  /\ effects[s] >= 2
                  /\ HasEvent(p, "exec", at)
                  /\ HasEvent(p, "record", at)
                  /\ EventAt(p, "exec", at) < EventAt(p, "record", at)
                  /\ Cardinality({ k \in 1..Len(chain) : chain[k].file_name = s.file_name }) = 1
                  /\ \E k \in 1..Len(chain) :
                       chain[k].file_name = s.file_name /\ chain[k].checksum = s.checksum

C8_Witness ==
  \E p \in Procs :
    /\ prior[p].kind = "crash"
    /\ pc[p] = "done"
    /\ result[p] = "Ok"
    /\ effects[CrashedScript(prior[p])] = 2
    /\ HasRecord(chain, CrashedScript(prior[p]).file_name)

\* ------------------------------------------------------------------ C9
\* C9: when run_migrations returns, no transaction it started is still open:
\* each was committed or rolled back, on every exit path.
C9_NoTransactionLeftOpen ==
  \A p \in Procs : pc[p] = "done" => openTx[p] = {}

\* ----------------------------------------------------------------- C10
\* C10: an empty input, which is what gather_migrations returns for an empty
\* and for a missing or unreadable directory, makes run_migrations return
\* Ok(()) with no lookup started, no script run and no record written; chain
\* and effects are unchanged.
C10_EmptyInputIsNoOp ==
  /\ gather_migrations([ok |-> FALSE, entries |-> <<>>]) = <<>>
  /\ gather_migrations([ok |-> TRUE, entries |-> <<>>]) = <<>>
  /\ \A p \in Procs :
       (pc[p] = "done" /\ migrations[p] = <<>>) =>
         /\ result[p] = "Ok"
         /\ trace[p] = <<>>
         /\ openTx[p] = {}
         /\ chain = chain0[p]
         /\ effects = effects0[p]

C10_Witness ==
  \E p \in Procs :
    /\ pc[p] = "done"
    /\ migrations[p] = gather_migrations([ok |-> FALSE, entries |-> <<>>])
    /\ result[p] = "Ok"
    /\ Len(chain) >= 1

\* ----------------------------------------------------------------- C11
\* a directory entry that is a migration: readable entry, extension cyp or
\* cypher, readable file
Kept(e) ==
  /\ e.ok
  /\ e.path.extension \in {"cyp", "cypher"}
  /\ e.content # Unreadable

KeptIdx(d) == IF d.ok THEN { i \in 1..Len(d.entries) : Kept(d.entries[i]) } ELSE {}

\* the index of the k-th such entry, in enumeration order
NthKept(d, k) ==
  CHOOSE i \in KeptIdx(d) : Cardinality({ j \in KeptIdx(d) : j <= i }) = k

\* the entry was discovered as script s
DiscoveredAs(e, s) ==
  /\ Kept(e)
  /\ s.file_name = e.path.file_name
  /\ s.cypher_text = e.content
  /\ s.checksum = calculate_checksum(e.content)

\* C11: gather_migrations returns, in enumeration order, exactly one
\* FileMigration (file name, text, checksum of the text) for each readable entry
\* with extension cyp or cypher whose file can be read, nothing for any other
\* entry and the empty sequence for a folder that cannot be read, never an
\* error; the run that follows commits bodies and writes records only for
\* discovered scripts.
C11_DiscoveryFilter ==
  \A p \in Procs :
    pc[p] # "idle" =>
      /\ Len(migrations[p]) = Cardinality(KeptIdx(dir))
      /\ \A k \in 1..Len(migrations[p]) :
           DiscoveredAs(dir.entries[NthKept(dir, k)], migrations[p][k])
      /\ \A s \in Scripts :
           effects[s] > effects0[p][s] =>
             \E i \in KeptIdx(dir) : DiscoveredAs(dir.entries[i], s)
      /\ \A n \in 1..Len(NewRecords(p)) :
           \E i \in KeptIdx(dir) :
             /\ NewRecords(p)[n].file_name = dir.entries[i].path.file_name
             /\ NewRecords(p)[n].checksum = calculate_checksum(dir.entries[i].content)

C11_Witness ==
  \E p \in Procs :
    /\ pc[p] = "done"
    /\ result[p] = "Ok"
    /\ dir.ok
    /\ Len(dir.entries) = 2
    /\ dir.entries[1].ok
    /\ dir.entries[1].path.extension = "txt"
    /\ Len(migrations[p]) = 1
    /\ HasEvent(p, "record", 0)
    /\ Len(NewRecords(p)) = 1

\* ----------------------------------------------------------------- C12
\* the record events of the run, in the order they happened
RecordEvents(p) == SelectSeq(trace[p], LAMBDA e : e[1] = "record")

\* C12: a run stops at the first script that is rejected: while a script at
\* position i has a chain record with another checksum, nothing at a position
\* after i is looked up, run, committed, recorded or skipped; and when the run
\* has returned ChecksumMismatch at position i, the lookup of i is the last thing
\* it did, and every record it wrote for a position before i is still in the
\* chain, after the records the chain held at the start.
C12_FailFastOnMismatch ==
  \A p \in Procs :
    pc[p] # "idle" =>
      /\ \A i \in 0..(Len(migrations[p]) - 1) :
           Drifted(p, i) => \A n \in 1..Len(trace[p]) : trace[p][n][2] <= i
      /\ (pc[p] = "done" /\ result[p] = "ChecksumMismatch") =>
           /\ Drifted(p, counter[p])
           /\ trace[p][Len(trace[p])] = <<"lookup", counter[p]>>
           /\ IsPrefix(chain0[p], chain)
           /\ Len(NewRecords(p)) = Len(RecordEvents(p))
           /\ \A n \in 1..Len(RecordEvents(p)) :
                /\ RecordEvents(p)[n][2] < counter[p]
                /\ NewRecords(p)[n].file_name =
                     migrations[p][RecordEvents(p)[n][2] + 1].file_name
                /\ NewRecords(p)[n].checksum =
                     migrations[p][RecordEvents(p)[n][2] + 1].checksum

C12_Witness ==
  \E p \in Procs :
    /\ pc[p] = "done"
    /\ result[p] = "ChecksumMismatch"
    /\ Len(migrations[p]) = 2
    /\ counter[p] = 0
    /\ trace[p] = <<(<<"lookup", 0>>)>>
    /\ chain = chain0[p]

\* a later script is never reached after a rejection, and what the run wrote
\* before the rejection stays
C12_WitnessKept ==
  \E p \in Procs :
    /\ pc[p] = "done"
    /\ result[p] = "ChecksumMismatch"
    /\ counter[p] = 1
    /\ HasEvent(p, "record", 0)
    /\ Len(NewRecords(p)) = 1

\* ----------------------------------------------------------------- C13
\* C13: every record a run writes carries version i + 1, where i is the 0-based
\* position of its script in the input of that run, skipped scripts counted;
\* the records of the run are those of its record events, in order, and the
\* version is the same whatever records the chain held when the run started.
C13_PositionalVersion ==
  \A p \in Procs :
    pc[p] # "idle" =>
      /\ Len(NewRecords(p)) = Len(RecordEvents(p))
      /\ \A n \in 1..Len(RecordEvents(p)) :
           /\ NewRecords(p)[n].version = RecordEvents(p)[n][2] + 1
           /\ NewRecords(p)[n].file_name =
                migrations[p][RecordEvents(p)[n][2] + 1].file_name

\* a record written at position 1 after a skipped script gets version 2, in a
\* chain whose one record has version 1
C13_Witness ==
  \E p \in Procs :
    /\ pc[p] = "done"
    /\ result[p] = "Ok"
    /\ Len(chain0[p]) = 1
    /\ HasEvent(p, "skip", 0)
    /\ HasEvent(p, "record", 1)
    /\ Len(NewRecords(p)) = 1
    /\ NewRecords(p)[1].version = 2

\* a record written at position 0 gets version 1 in a chain that already holds
\* a record of version 1
C13_WitnessIndependent ==
  \E p \in Procs :
    /\ pc[p] = "done"
    /\ Len(chain0[p]) = 1
    /\ chain0[p][1].version = 1
    /\ HasEvent(p, "record", 0)
    /\ NewRecords(p)[1].version = 1

\* ----------------------------------------------------------------- C14
\* the positions the run has looked up and neither skipped nor recorded
InProgress(p) ==
  { i \in 0..(Len(migrations[p]) - 1) :
      /\ HasEvent(p, "lookup", i)
      /\ ~HasEvent(p, "skip", i)
      /\ ~HasEvent(p, "record", i) }

\* C14: a run works through its input one script at a time, in input order:
\* the first lookup is that of position 0, and the lookup of position i + 1
\* comes directly after position i was skipped or its record write was
\* committed; a record write comes directly after the commit of the script
\* body, which comes directly after the body was run, which comes directly
\* after create_migration_node was entered, directly after the lookup, all for
\* the same position; so bodies are committed in
\* input order and at most one position is in progress at any time.
C14_SequentialInOrder ==
  \A p \in Procs :
    pc[p] # "idle" =>
      /\ \A n \in 1..Len(trace[p]) :
           LET ev == trace[p][n][1]
               i == trace[p][n][2]
               before == IF n = 1 THEN <<"start", 0>> ELSE trace[p][n - 1]
           IN /\ ev = "lookup" =>
                   IF i = 0 THEN n = 1
                   ELSE before \in {<<"skip", i - 1>>, <<"record", i - 1>>}
              /\ ev \in {"skip", "create"} => before = <<"lookup", i>>
              /\ ev \in {"run", "script_error"} => before = <<"create", i>>
              /\ ev = "exec" => before = <<"run", i>>
              /\ ev = "record" => before = <<"exec", i>>
      /\ \A m, n \in 1..Len(trace[p]) : m < n => trace[p][m][2] <= trace[p][n][2]
      /\ Cardinality(InProgress(p)) <= 1
      /\ InProgress(p) \subseteq {counter[p]}

C14_Witness ==
  \E p \in Procs :
    /\ pc[p] = "get_existing"
    /\ counter[p] = 1
    /\ trace[p] = <<(<<"lookup", 0>>), <<"create", 0>>, <<"run", 0>>, <<"exec", 0>>,
                      <<"record", 0>>>>
    /\ openTx[p] \cap {"script", "record"} = {}
    /\ Len(NewRecords(p)) = 1

\* ----------------------------------------------------------------- C15
\* the records of the chain with that file_name
RecordsOf(name) == { k \in 1..Len(chain) : chain[k].file_name = name }

\* C15: nothing serialises two runs on the same store. When two concurrent runs
\* of the same one script have both committed its body and both returned
\* Ok(()), the body took effect twice and the chain holds two records with its
\* file_name and checksum; and two records of one file_name are in the chain
\* only when both runs wrote one, each after a lookup that found none.
C15_ConcurrentRunsDuplicate ==
  /\ \A p, q \in Procs :
       ( /\ p # q
         /\ pc[p] = "done" /\ result[p] = "Ok"
         /\ pc[q] = "done" /\ result[q] = "Ok"
         /\ migrations[p] = migrations[q]
         /\ HasEvent(p, "exec", 0) /\ HasEvent(q, "exec", 0) ) =>
           /\ effects[migrations[p][1]] = 2
           /\ Cardinality({ k \in RecordsOf(migrations[p][1].file_name) :
                               chain[k].checksum = migrations[p][1].checksum }) = 2
  /\ \A name \in FileNames :
       Cardinality(RecordsOf(name)) >= 2 =>
         \A p \in Procs :
           /\ Len(migrations[p]) = 1
           /\ migrations[p][1].file_name = name
           /\ trace[p] = <<(<<"lookup", 0>>), <<"create", 0>>, <<"run", 0>>, <<"exec", 0>>,
                      <<"record", 0>>>>

\* both runs found no record, both committed the body, both wrote a record
C15_Witness ==
  /\ Len(chain) = 2
  /\ chain[1].file_name = chain[2].file_name
  /\ chain[1].checksum = chain[2].checksum
  /\ \A p \in Procs :
       /\ pc[p] = "done"
       /\ result[p] = "Ok"
       /\ HasEvent(p, "exec", 0)
       /\ HasEvent(p, "record", 0)
  /\ migrations[1] = migrations[2]
  /\ effects[migrations[1][1]] = 2

\* ----------------------------------------------------------------- C16
\* the lifecycle state of the script at position i of the run of p
St(p, i) ==
  IF HasEvent(p, "skip", i) THEN "Skipped"
  ELSE IF HasEvent(p, "record", i) THEN "Applied"
  ELSE IF HasEvent(p, "create", i) THEN "Applying"
  ELSE IF pc[p] = "done" /\ result[p] = "ChecksumMismatch" /\ counter[p] = i
       THEN "Rejected"
  ELSE "Unseen"

\* C16: within one run the script at a position changes state only by
\* Unseen -> Skipped, when the lookup returned a record with its checksum;
\* Unseen -> Applying, when the lookup returned no record; Applying -> Applied;
\* Unseen -> Rejected, when the lookup returned a record with another checksum,
\* and then the run is done with ChecksumMismatch. Skipped, Applied and
\* Rejected are never left, and after a rejection every later position is
\* still Unseen.
C16_Lifecycle ==
  [][ \A p \in Procs :
        (pc[p] # "idle" /\ pc'[p] # "idle") =>
          \A i \in 0..(Len(migrations[p]) - 1) :
            /\ \/ St(p, i)' = St(p, i)
               \/ /\ St(p, i) = "Unseen" /\ St(p, i)' = "Skipped"
                  /\ i = counter[p]
                  /\ IsSome(existing[p])
                  /\ Unwrap(existing[p]).checksum = migrations[p][i + 1].checksum
               \/ /\ St(p, i) = "Unseen" /\ St(p, i)' = "Applying"
                  /\ i = counter[p]
                  /\ pc[p] = "up_migration"
                  /\ existing[p] = None
               \/ /\ St(p, i) = "Applying" /\ St(p, i)' = "Applied"
                  /\ i = counter[p]
               \/ /\ St(p, i) = "Unseen" /\ St(p, i)' = "Rejected"
                  /\ i = counter[p]
                  /\ IsSome(existing[p])
                  /\ Unwrap(existing[p]).checksum # migrations[p][i + 1].checksum
                  /\ pc'[p] = "done"
            /\ St(p, i) = "Rejected" =>
                 \A j \in (i + 1)..(Len(migrations[p]) - 1) : St(p, j) = "Unseen"
    ]_vars

\* position 0 was applied and position 1 rejected
C16_Witness ==
  \E p \in Procs :
    /\ Len(migrations[p]) = 2
    /\ St(p, 0) = "Applied"
    /\ St(p, 1) = "Rejected"

\* position 0 was skipped and position 1 is being applied
C16_WitnessSkipped ==
  \E p \in Procs :
    /\ Len(migrations[p]) = 2
    /\ St(p, 0) = "Skipped"
    /\ St(p, 1) = "Applying"

\* ----------------------------------------------------------------- C17
\* the stream of a query that matched nothing
NoRow == [failed |-> FALSE, row |-> None]

\* C17: a lookup that gets no row is no error. get_single answers Ok(None) for
\* an empty stream and never answers NoRecordsFound, which only single does; so
\* no run ever ends in NoRecordsFound, a script whose file_name has no record
\* goes from the lookup to create_migration_node, and a run that returned
\* Ok(()) has committed the body of every script that had no record when its
\* turn came.
C17_AbsenceIsNotAnError ==
  /\ \A d \in BOOLEAN :
       /\ get_single(NoRow, d) = Ok(None)
       /\ single(NoRow, d) = Err("QueryError::NoRecordsFound")
  /\ \A p \in Procs :
       /\ result[p] # "QueryError::NoRecordsFound"
       /\ \A d \in BOOLEAN, name \in FileNames :
            \A nxt \in StreamNext(chain, MatchRows(chain, name)) :
              get_single(nxt, d).err # "QueryError::NoRecordsFound"
       /\ (pc[p] = "up_migration" /\ MatchRows(chain, Current(p).file_name) = {}) =>
            /\ existing[p] = None
            /\ UpMigrationOutcome(existing[p], Current(p)) = "create"
       /\ (pc[p] = "done" /\ result[p] = "Ok") =>
            \A i \in 0..(Len(migrations[p]) - 1) :
              ( /\ ~HasRecord(chain0[p], migrations[p][i + 1].file_name)
                /\ \A j \in 0..(i - 1) :
                     migrations[p][j + 1].file_name # migrations[p][i + 1].file_name )
              => HasEvent(p, "exec", i)

\* a script without a record was looked up and then applied
C17_Witness ==
  \E p \in Procs :
    /\ pc[p] = "done"
    /\ result[p] = "Ok"
    /\ chain0[p] = <<>>
    /\ Len(migrations[p]) = 1
    /\ HasEvent(p, "lookup", 0)
    /\ HasEvent(p, "create", 0)
    /\ HasEvent(p, "exec", 0)

\* ----------------------------------------------------------------- C18
\* the run of p ended in its lookup of position i: the lookup is the last thing
\* the run did, and what ended it was not the comparison of the checksums
LookupFailedAt(p, i) ==
  /\ pc[p] = "done"
  /\ trace[p] # <<>>
  /\ trace[p][Len(trace[p])] = <<"lookup", i>>
  /\ result[p] # "ChecksumMismatch"

\* C18: when the lookup of position i fails, on a store error or on a row that
\* cannot be deserialized, the run returns that error with the counter still at
\* i; nothing at position i or after it was skipped, entered, run, committed
\* or recorded, the chain and the effects hold exactly what the positions
\* before i added, and no position was looked up twice.
C18_FailedLookupHalts ==
  \A p \in Procs :
    \A i \in 0..(Len(migrations[p]) - 1) :
      LookupFailedAt(p, i) =>
        /\ result[p] \in StoreErrors
        /\ counter[p] = i
        /\ \A n \in 1..Len(trace[p]) :
             \/ trace[p][n][2] < i
             \/ n = Len(trace[p])
        /\ \A j \in 0..i :
             Cardinality({ n \in 1..Len(trace[p]) : trace[p][n] = <<"lookup", j>> }) = 1
        /\ Len(NewRecords(p)) = Len(RecordEvents(p))
        /\ \A s \in Scripts :
             effects[s] - effects0[p][s] =
               Cardinality({ j \in Applied(p) : migrations[p][j + 1] = s })

\* position 0 was applied, then the row of position 1 could not be deserialized
C18_Witness ==
  \E p \in Procs :
    /\ LookupFailedAt(p, 1)
    /\ result[p] = "QueryError::NeoDeError"
    /\ HasEvent(p, "record", 0)
    /\ Len(NewRecords(p)) = 1

\* the store failed the lookup of position 0 of two new scripts
C18_WitnessStoreError ==
  \E p \in Procs :
    /\ LookupFailedAt(p, 0)
    /\ result[p] = "QueryError::ExecutionError"
    /\ Len(migrations[p]) = 2
    /\ chain = <<>>

\* ----------------------------------------------------------------- C19
\* the script a record stands for
ScriptOf(node) ==
  { s \in Scripts : s.file_name = node.file_name /\ s.checksum = node.checksum }

\* C19: a record is in the chain only after a script-execution transaction for
\* its script was committed: every record stands for a script whose body took
\* effect at least as often as the chain holds records of it, a run writes the
\* record of a position only after it committed the body of that position, and
\* a run that ended in the failure of a script or of its commit wrote no record
\* for that position.
C19_RecordImpliesEffect ==
  /\ \A k \in 1..Len(chain) :
       /\ ScriptOf(chain[k]) # {}
       /\ \A s \in ScriptOf(chain[k]) :
            effects[s] >= Cardinality({ j \in 1..Len(chain) : s \in ScriptOf(chain[j]) })
  /\ \A p \in Procs :
       /\ \A n \in 1..Len(trace[p]) :
            trace[p][n][1] = "record" =>
              \E m \in 1..(n - 1) : trace[p][m] = <<"exec", trace[p][n][2]>>
       /\ pc[p] # "idle" => Len(NewRecords(p)) = Len(RecordEvents(p))
       /\ ( /\ pc[p] = "done"
            /\ trace[p] # <<>>
            /\ trace[p][Len(trace[p])][1] \in {"create", "run", "script_error"} ) =>
              /\ result[p] \in StoreErrors
              /\ ~HasEvent(p, "record", counter[p])
              /\ \A n \in 1..Len(NewRecords(p)) :
                   NewRecords(p)[n].version # counter[p] + 1

\* a record in the chain and the effect of its script in the store
C19_Witness ==
  \E p \in Procs :
    /\ pc[p] = "done"
    /\ Len(chain) = 1
    /\ HasEvent(p, "record", 0)
    /\ \A s \in ScriptOf(chain[1]) : effects[s] = 1

\* the commit of the script failed and no record was written
C19_WitnessCommitFailed ==
  \E p \in Procs :
    /\ pc[p] = "done"
    /\ result[p] = "Neo4jError"
    /\ trace[p] = <<(<<"lookup", 0>>), <<"create", 0>>, <<"run", 0>>>>
    /\ chain = <<>>

\* ----------------------------------------------------------------- C20
\* C20: when run_migrations has returned Ok(()), the chain holds, for every
\* script of its input, a record with the file_name and the checksum of that
\* script.
C20_SuccessConverges ==
  \A p \in Procs :
    (pc[p] = "done" /\ result[p] = "Ok") =>
      \A i \in 1..Len(migrations[p]) :
        \E k \in 1..Len(chain) :
          /\ chain[k].file_name = migrations[p][i].file_name
          /\ chain[k].checksum = migrations[p][i].checksum

\* a successful run of two scripts, one skipped and one applied
C20_Witness ==
  \E p \in Procs :
    /\ pc[p] = "done"
    /\ result[p] = "Ok"
    /\ Len(migrations[p]) = 2
    /\ HasEvent(p, "skip", 0)
    /\ HasEvent(p, "record", 1)
    /\ Len(chain) = 2

====
